---- MODULE Spec2Model ----
(***************************************************************************)
(* Railway Scheduling Core (opt-engine/src/optimizer.py, main.py).         *)
(*                                                                         *)
(* One optimize call is followed from the request to the HTTP answer:      *)
(*   idle --CreateModel--> created --Solve--> solved --Return/Raise--> done *)
(* The CP-SAT solver is an external library.  It is modelled by its        *)
(* contract: it answers with a status, and with OPTIMAL or FEASIBLE it     *)
(* holds an assignment that satisfies every constraint the builders        *)
(* emitted (a minimal-objective one with OPTIMAL).                         *)
(*                                                                         *)
(* Conventions.  Station codes are strings.  A train id is an integer      *)
(* standing for the rank of the id string in string order.  A segment id   *)
(* is a tuple of tokens: <<a, b>> is the string "a-b" that                 *)
(* _get_route_segments_from_train formats, <<a, b, "001">> is "a-b-001".   *)
(* Instants are minutes since midnight of the current day.  An occupancy   *)
(* row x[train][segment] is the set of ticks at which the boolean is 1.    *)
(* Float weights are kept exact by scaling the objective by 100.           *)
(*                                                                         *)
(* The five variable families x, s, c, p, j are independent blocks of the  *)
(* constraint model, so the set of assignments is a product too large to   *)
(* enumerate at once.  Each specification names in `branch` the families   *)
(* its solver run explores exhaustively; the others stay at the lower      *)
(* bound of their domain.  A claim is checked under a specification that   *)
(* explores every family the claim reads.  Inputs carry distinct train     *)
(* ids and distinct segment ids (spec section 3).                          *)
(*                                                                         *)
(* Besides the call itself the module holds the state the call shares:     *)
(* self.config and self.variables of the optimizer, which a second call on *)
(* the same instance overwrites (SpecOverlap), and the PerformanceMonitor  *)
(* (performance_monitor.py), which is driven by its own callers            *)
(* (SpecMonitor, SpecFree).  The AdvancedConstraintBuilder                 *)
(* (advanced_constraints.py) is called by no code of the repository; its   *)
(* caller applies one of its methods to the model between _create_model    *)
(* and the solve (SpecAdvanced).                                           *)
(***************************************************************************)
EXTENDS Integers, Sequences, FiniteSets, TLC

\* ----------------------------------------------------------------- bounds
\* Largest time horizon (minutes) whose ticks the solver run explores one
\* by one.  A request of the advanced builder may carry a longer horizon; of
\* its ticks the run explores the first ExploredHead ones and those from the
\* last tick of the advanced builder's hard-coded range on.
MaxH == 5

ExploredHead == 2

\* Runs a caller of the monitor makes beyond the number the monitor keeps
\* (history) or averages over (summary).
MaxExtraRuns == 2

\* ------------------------------------------------------ program constants
DefaultHorizon == 240
MaxStartDelay == 120
MaxPlatform == 10
MinSeparation == 3
NoPlatform == -1
DelayWeight == 1
ConflictWeight == 100
PriorityMultiplier == 2
PriorityBase == 6
HttpOk == 200
HttpError == 500
DefaultTimeStep == 1
HistoryLimit == 100
RecentRuns == 10
AdvancedSlots == 240

VARIABLES
    trains,         \* request: list of TrainData
    tracks,         \* request: list of TrackData
    conflicts,      \* request: list of ConflictData
    time_horizon,   \* request: time_horizon_minutes
    hB,             \* self.config.headway_buffer_minutes
    base,           \* minute of the day at which the call runs (datetime.now())
    branch,         \* variable families whose values the solver run explores
    pc,             \* position of the call
    config_H,       \* self.config.time_horizon_minutes
    status,         \* status returned by solver.Solve
    sol,            \* the values the solver gives for the variables of
                    \* self.variables (x, s, c, p, j), or NoSol
    outcome,        \* "none" | "result" | "error"
    result,         \* the OptimizationResult, or NoResult
    message,        \* text of the raised exception, or ""
    http,           \* status code of the HTTP answer, 0 before it
    time_step,      \* self.config.time_step_minutes
    variables,      \* self.variables: the arena of the model built last
    metrics_history,  \* PerformanceMonitor.metrics_history (references)
    current_metrics,  \* PerformanceMonitor.current_metrics (a reference)
    metrics_objects,  \* the OptimizationMetrics objects, by reference
    returned,       \* value returned by the last call on the monitor
    workload,       \* how the caller of the monitor behaves
    early_calls,    \* the methods of the monitor called before any start
    augmentation    \* what the advanced builder added to the model

monitor_vars ==
    <<metrics_history, current_metrics, metrics_objects, returned, workload,
      early_calls>>

vars == <<trains, tracks, conflicts, time_horizon, hB, base, branch, pc,
          config_H, status, sol, outcome, result, message, http,
          time_step, variables, monitor_vars, augmentation>>

\* --------------------------------------------------------------- helpers
Min(S) == CHOOSE m \in S : \A n \in S : m <= n

Min2(a, b) == IF a <= b THEN a ELSE b

RECURSIVE SumSeq(_)
SumSeq(q) == IF q = <<>> THEN 0 ELSE Head(q) + SumSeq(Tail(q))

NoSol == [none |-> TRUE]
NoResult == [none |-> TRUE]
NoReturn == [none |-> TRUE]
NoSeg == <<>>

\* self.variables: {} after __init__, then the arena of the model that the
\* last _create_model built (the call that built it, the horizon it covers).
NoArena == [call |-> "none", horizon |-> 0]

Arena(call, horizon) == [call |-> call, horizon |-> horizon]

\* PerformanceMonitor.current_metrics = None
NoMetrics == 0

\* No method of AdvancedConstraintBuilder was called on the model.
NoAugmentation == [kind |-> "none"]

\* --------------------------------------------------------------- records
TrainData(id, route, priority, sigma) ==
    [train_id |-> id, route |-> route, priority |-> priority, sigma |-> sigma]

TrackData(sid, from, to, capacity) ==
    [segment_id |-> sid, from_station |-> from, to_station |-> to,
     capacity |-> capacity]

ConflictData(cid, tids, rid, ctype, severity) ==
    [conflict_id |-> cid, train_ids |-> tids, resource_id |-> rid,
     conflict_type |-> ctype, severity |-> severity]

TRACK_OCCUPATION == "track_occupation"

\* ------------------------------------------------------------ the arena
\* time_slots = range(self.config.time_horizon_minutes)
time_slots == 0 .. (config_H - 1)

TrainIds == {trains[i].train_id : i \in 1..Len(trains)}
SegmentIds == {tracks[k].segment_id : k \in 1..Len(tracks)}
ConflictIds == {conflicts[q].conflict_id : q \in 1..Len(conflicts)}
RouteStations(tid) ==
    UNION {{trains[i].route[n] : n \in 1..Len(trains[i].route)} :
           i \in {m \in 1..Len(trains) : trains[m].train_id = tid}}

\* max_delay = min(120, self.config.time_horizon_minutes // 2)
max_delay == Min2(MaxStartDelay, config_H \div 2)

\* ---------------------------------------------------- route derivation
\* _get_route_segments: for each consecutive station pair the first track of
\* the list that joins the two stations in either direction; a pair that no
\* track joins contributes nothing.
\* Faulty variant of MatchingTracks: a track joins its stations one way only.
MatchingTracksOneWay(from, to) ==
    {k \in 1..Len(tracks) :
        tracks[k].from_station = from /\ tracks[k].to_station = to}

MatchingTracks(from, to) ==
    {k \in 1..Len(tracks) :
        \/ tracks[k].from_station = from /\ tracks[k].to_station = to
        \/ tracks[k].from_station = to /\ tracks[k].to_station = from}

IsSeg(sid) == sid # NoSeg

get_route_segments(train) ==
    IF Len(train.route) < 2 THEN <<>>
    ELSE SelectSeq(
           [i \in 1..(Len(train.route) - 1) |->
              LET m == MatchingTracks(train.route[i], train.route[i + 1])
              IN  IF m = {} THEN NoSeg ELSE tracks[Min(m)].segment_id],
           IsSeg)

\* _get_route_segments_from_train: the formatted names "a-b".
get_route_segments_from_train(train) ==
    IF Len(train.route) < 2 THEN <<>>
    ELSE [i \in 1..(Len(train.route) - 1) |->
            <<train.route[i], train.route[i + 1]>>]

\* _get_scheduled_start_minutes: minutes from midnight to scheduled_arrival.
get_scheduled_start_minutes(train) == train.sigma

\* ------------------------------------------------- base constraint builder
\* Each builder is the conjunction of the constraints it adds to the model,
\* as a predicate on a candidate assignment a = [x, s, c, p, j].  A boolean
\* the builder creates only to condition a constraint (OnlyEnforceIf) is a
\* variable of the model like any other: the solver chooses it, hence \E.

\* Faulty variant of add_capacity_constraints: the bound is off by one.
add_capacity_constraints_off_by_one(a) ==
    \A k \in 1..Len(tracks) : \A t \in time_slots :
        Cardinality({i \in 1..Len(trains) :
                        t \in a.x[trains[i].train_id][tracks[k].segment_id]})
            <= tracks[k].capacity + 1

\* _add_capacity_constraints: sum of the trains' x on the track at t <= capacity.
add_capacity_constraints(a) ==
    \A k \in 1..Len(tracks) : \A t \in time_slots :
        LET occupancy_vars ==
                {i \in 1..Len(trains) :
                    t \in a.x[trains[i].train_id][tracks[k].segment_id]}
        IN  Len(trains) > 0 =>
                Cardinality(occupancy_vars) <= tracks[k].capacity

\* _add_route_continuity_constraints.  A chain of fewer than two segments is
\* skipped by `continue`, the completion constraint with it.
add_route_continuity_constraints(a) ==
    \A i \in 1..Len(trains) :
        LET train == trains[i]
            route_segments == get_route_segments(train)
            xt == a.x[train.train_id]
        IN  Len(route_segments) >= 2 =>
              /\ \A n \in 1..(Len(route_segments) - 1) :
                   \A t \in 0..(config_H - 2) :
                     \E leaving_current \in BOOLEAN :
                        leaving_current =>
                          /\ t \in xt[route_segments[n]]
                          /\ (t + 1) \notin xt[route_segments[n]]
                          /\ (t + 1) \in xt[route_segments[n + 1]]
              /\ Cardinality(xt[route_segments[Len(route_segments)]]) >= 1

\* _add_headway_constraints: headway = headway_buffer_minutes + 3; only pairs
\* with i < j in list order, only t in range(len(time_slots) - headway).
add_headway_constraints(a) ==
    LET headway == hB + MinSeparation
    IN  \A k \in 1..Len(tracks) :
          \A i \in 1..Len(trains) : \A j \in 1..Len(trains) :
            i < j =>
              \A t \in 0..(config_H - headway - 1) :
                \A h \in 1..headway :
                  (t + h < config_H) =>
                    (t \in a.x[trains[i].train_id][tracks[k].segment_id]
                       => (t + h) \notin
                            a.x[trains[j].train_id][tracks[k].segment_id])

\* _add_platform_constraints: station_trains[station] lists a train once per
\* occurrence of the station in its route; a visit is <<train index, route
\* index>> and the list order is the lexicographic one.
StationVisits(station) ==
    UNION {{<<i, n>> : n \in {m \in 1..Len(trains[i].route) :
                                trains[i].route[m] = station}} :
           i \in 1..Len(trains)}

VisitBefore(v, w) == v[1] < w[1] \/ (v[1] = w[1] /\ v[2] < w[2])

AllStations == UNION {RouteStations(tid) : tid \in TrainIds}

add_platform_constraints(a) ==
    \A station \in AllStations :
      \A v \in StationVisits(station) : \A w \in StationVisits(station) :
        VisitBefore(v, w) =>
          LET p1 == a.p[<<trains[v[1]].train_id, station>>]
              p2 == a.p[<<trains[w[1]].train_id, station>>]
          IN  \E same_platform \in BOOLEAN :
                /\ same_platform => (p1 = p2)
                /\ (~same_platform) => (p1 # p2)

\* _add_conflict_constraints: only track_occupation conflicts whose resource
\* is a track of the list; occupancy_vars holds one x per entry of train_ids
\* that names a train of the model.
add_conflict_constraints(a) ==
    \A q \in 1..Len(conflicts) :
      LET conflict == conflicts[q]
          found == {k \in 1..Len(tracks) :
                      tracks[k].segment_id = conflict.resource_id}
          known == {n \in 1..Len(conflict.train_ids) :
                      conflict.train_ids[n] \in TrainIds}
      IN  (conflict.conflict_type = TRACK_OCCUPATION /\ found # {}) =>
            \A t \in time_slots :
              LET total_occupancy ==
                    Cardinality({n \in known :
                      t \in a.x[conflict.train_ids[n]][conflict.resource_id]})
                  capacity == tracks[Min(found)].capacity
              IN  Cardinality(known) > 1 =>
                    /\ (~a.c[conflict.conflict_id]) =>
                          total_occupancy <= capacity
                    /\ a.c[conflict.conflict_id] =>
                          total_occupancy >= capacity + 1

\* _add_timing_constraints: both parts look the segment up under the name
\* _get_route_segments_from_train formats.
add_timing_constraints(a) ==
    \A i \in 1..Len(trains) :
      LET train == trains[i]
          tid == train.train_id
          route_segments == get_route_segments_from_train(train)
          scheduled_start_minutes == get_scheduled_start_minutes(train)
      IN  (route_segments # <<>>) =>
            /\ LET last_segment == route_segments[Len(route_segments)]
               IN  last_segment \in SegmentIds =>
                     \A t \in time_slots :
                       (t < config_H - 1) =>
                         \E completing \in BOOLEAN :
                           completing =>
                             /\ t \in a.x[tid][last_segment]
                             /\ (t + 1) \notin a.x[tid][last_segment]
                             /\ a.j[tid] = t + 1
            /\ LET first_segment == route_segments[1]
               IN  first_segment \in SegmentIds =>
                     \A t \in time_slots :
                       IF t < scheduled_start_minutes
                       THEN t \notin a.x[tid][first_segment]
                       ELSE \E can_start \in BOOLEAN :
                              can_start =>
                                t >= scheduled_start_minutes + a.s[tid]

\* _set_objective, times 100: the weights 0.1 and 0.01 become 10 and 1.
Objective100(a) ==
    LET delay_terms == [i \in 1..Len(trains) |->
            100 * DelayWeight * (PriorityBase - trains[i].priority)
                * PriorityMultiplier * a.s[trains[i].train_id]]
        journey_terms == [i \in 1..Len(trains) |->
            10 * DelayWeight * a.j[trains[i].train_id]]
        conflict_terms == [q \in 1..Len(conflicts) |->
            100 * ConflictWeight * (PriorityBase - conflicts[q].severity)
                * (IF a.c[conflicts[q].conflict_id] THEN 1 ELSE 0)]
        total_delay == [i \in 1..Len(trains) |-> a.s[trains[i].train_id]]
    IN  SumSeq(delay_terms) + SumSeq(journey_terms) + SumSeq(conflict_terms)
          + DelayWeight * SumSeq(total_delay)

\* Faulty variant of objective_is_linear_expression: the constant term is an
\* integer, which Minimize accepts as an objective.
objective_is_always_accepted == TRUE

\* _set_objective, model.Minimize(sum(objective_terms)).  Every train adds
\* two terms and every conflict one term that hold a variable; the last term,
\* delay_weight * 0.01 * total_delay, is the float 0.0 when there is no
\* train.  Without trains and conflicts the sum is therefore the float 0.0
\* and not a linear expression, and CpModel.Minimize raises TypeError for it
\* (it accepts a linear expression or an integer).
objective_is_linear_expression == Len(trains) > 0 \/ Len(conflicts) > 0

\* _create_model: the six builders, in the order they are called.
Constraints(a) ==
    /\ add_capacity_constraints(a)
    /\ add_route_continuity_constraints(a)
    /\ add_headway_constraints(a)
    /\ add_platform_constraints(a)
    /\ add_conflict_constraints(a)
    /\ add_timing_constraints(a)

\* ------------------------------------------------------------ the solver
\* Domains of the five variable families (_create_model).  A family that is
\* not in `branch` is held at the lower bound of its domain, which is where
\* the solver's default search leaves a variable no constraint pushes.
PlatformKeys ==
    {k \in TrainIds \X AllStations : k[2] \in RouteStations(k[1])}

\* The ticks at which the solver run explores the occupancy.  A tick outside
\* holds 0, the lower bound of its boolean.
ExploredTicks ==
    IF config_H <= MaxH THEN time_slots
    ELSE {t \in time_slots : t < ExploredHead \/ t >= AdvancedSlots - 1}

XDomain == [TrainIds -> [SegmentIds -> SUBSET ExploredTicks]]
SDomain == [TrainIds -> IF "s" \in branch THEN 0..max_delay
                        ELSE {0} \cap (0..max_delay)]
CDomain == [ConflictIds -> IF "c" \in branch THEN BOOLEAN ELSE {FALSE}]
PDomain == [PlatformKeys -> IF "p" \in branch THEN 1..MaxPlatform ELSE {1}]
JDomain == [TrainIds -> IF "j" \in branch THEN 0..config_H
                        ELSE {0} \cap (0..config_H)]

Solutions ==
    {a \in [x : XDomain, s : SDomain, c : CDomain, p : PDomain, j : JDomain] :
        Constraints(a)}

Optimal(sols) ==
    LET best == Min({Objective100(a) : a \in sols})
    IN  {a \in sols : Objective100(a) = best}

\* A variable whose domain is empty (NewIntVar(0, ub) with ub < 0) makes the
\* model invalid.
ModelValid == (Len(trains) > 0) => (max_delay >= 0 /\ config_H >= 0)

SolverStatuses(sols) ==
    IF ~ModelValid THEN {"MODEL_INVALID"}
    ELSE IF sols = {} THEN {"INFEASIBLE", "UNKNOWN"}
    ELSE {"OPTIMAL", "FEASIBLE", "UNKNOWN"}

\* Faulty variant of solve_model_returns_solver: FEASIBLE counts as a failure.
solve_model_returns_solver_optimal_only(st) == st = "OPTIMAL"

\* _solve_model: the solver for OPTIMAL and FEASIBLE, None otherwise.
solve_model_returns_solver(st) == st \in {"OPTIMAL", "FEASIBLE"}

\* ------------------------------------------------------------- extractor
\* The loop over t of _extract_schedule: start at the first tick with x = 1,
\* end after the last tick of that run; the loop breaks at the first 0 after it.
run_start(row) == Min(row)

\* Faulty variant of run_end: the end instant is one tick late.
run_end_late(row) ==
    Min({t \in (run_start(row) + 1)..config_H : t \notin row}) + 1

run_end(row) ==
    Min({t \in (run_start(row) + 1)..config_H : t \notin row})

\* Platform of an entry: p of the first station of the route, None without one.
entry_platform(train) ==
    IF Len(train.route) = 0 THEN NoPlatform
    ELSE sol.p[<<train.train_id, train.route[1]>>]

NoEntry == [none |-> TRUE]

IsEntry(e) == e # NoEntry

schedule_entry(train, track) ==
    LET row == sol.x[train.train_id][track.segment_id]
    IN  IF row = {} THEN NoEntry
        ELSE [train_id |-> train.train_id,
              segment_id |-> track.segment_id,
              start_time |-> base + run_start(row),
              end_time |-> base + run_end(row),
              platform |-> entry_platform(train)]

\* The list before sorting: trains in list order, tracks in list order.
appended_entries ==
    IF Len(trains) = 0 \/ Len(tracks) = 0 THEN <<>>
    ELSE SelectSeq(
           [n \in 1..(Len(trains) * Len(tracks)) |->
              schedule_entry(trains[((n - 1) \div Len(tracks)) + 1],
                             tracks[((n - 1) % Len(tracks)) + 1])],
           IsEntry)

\* sorted(schedule, key=lambda x: x.start_time): a stable sort on start_time.
insert_by_key(sorted, e) ==
    LET n == Cardinality({i \in 1..Len(sorted) :
                             sorted[i].start_time <= e.start_time})
    IN  SubSeq(sorted, 1, n) \o <<e>> \o SubSeq(sorted, n + 1, Len(sorted))

RECURSIVE sorted_by_start_time(_)
sorted_by_start_time(q) ==
    IF q = <<>> THEN <<>>
    ELSE insert_by_key(sorted_by_start_time(SubSeq(q, 1, Len(q) - 1)),
                       q[Len(q)])

extract_schedule == sorted_by_start_time(appended_entries)

\* _calculate_metrics
calculate_metrics ==
    [objective_value100 |-> Objective100(sol),
     total_delay |-> SumSeq([i \in 1..Len(trains) |->
                               sol.s[trains[i].train_id]]),
     conflicts_resolved |-> Cardinality({q \in 1..Len(conflicts) :
                               ~sol.c[conflicts[q].conflict_id]})]

\* --------------------------------------------------------------- actions
\* optimize, up to the model: the horizon of the request overwrites the
\* configuration and the model is built on it.
CreateModel ==
    /\ pc = "idle"
    /\ objective_is_linear_expression
    /\ config_H' = time_horizon
    /\ variables' = Arena("this", time_horizon)
    /\ pc' = "created"
    /\ UNCHANGED <<trains, tracks, conflicts, time_horizon, hB, base, branch,
                   status, sol, outcome, result, message, http>>
    /\ UNCHANGED <<time_step, monitor_vars, augmentation>>

\* solver.Solve(model)
Solve ==
    /\ pc = "created"
    /\ LET sols == Solutions
       IN  \E st \in SolverStatuses(sols) :
             /\ status' = st
             /\ sol' \in (IF st = "OPTIMAL" THEN Optimal(sols)
                          ELSE IF st = "FEASIBLE" THEN sols
                          ELSE {NoSol})
    /\ pc' = "solved"
    /\ UNCHANGED <<trains, tracks, conflicts, time_horizon, hB, base, branch,
                   config_H, outcome, result, message, http>>
    /\ UNCHANGED <<time_step, variables, monitor_vars, augmentation>>

\* optimize, `if solution:` branch, and the answer of optimize_schedule.
Return ==
    /\ pc = "solved"
    /\ solve_model_returns_solver(status)
    /\ LET metrics == calculate_metrics
       IN  result' = [schedule |-> extract_schedule,
                      objective_value100 |-> metrics.objective_value100,
                      conflicts_resolved |-> metrics.conflicts_resolved,
                      total_delay_minutes |-> metrics.total_delay]
    /\ outcome' = "result"
    /\ http' = HttpOk
    /\ pc' = "done"
    /\ UNCHANGED <<trains, tracks, conflicts, time_horizon, hB, base, branch,
                   config_H, status, sol, message>>
    /\ UNCHANGED <<time_step, variables, monitor_vars, augmentation>>

\* optimize, `else` branch, and the except clause of optimize_schedule.
Raise ==
    /\ pc = "solved"
    /\ ~solve_model_returns_solver(status)
    /\ outcome' = "error"
    /\ message' = "Optimization failed - no feasible solution found"
    /\ http' = HttpError
    /\ pc' = "done"
    /\ UNCHANGED <<trains, tracks, conflicts, time_horizon, hB, base, branch,
                   config_H, status, sol, result>>
    /\ UNCHANGED <<time_step, variables, monitor_vars, augmentation>>

Next == CreateModel \/ Solve \/ Return \/ Raise

\* optimize when _set_objective raises: the horizon and the arena are
\* already stored, the TypeError leaves optimize and optimize_schedule
\* answers HTTP 500 with its text.
CreateModelRaises ==
    /\ pc = "idle"
    /\ ~objective_is_linear_expression
    /\ config_H' = time_horizon
    /\ variables' = Arena("this", time_horizon)
    /\ outcome' = "error"
    /\ message' = "TypeError: 0.0 is not a valid objective"
    /\ http' = HttpError
    /\ pc' = "done"
    /\ UNCHANGED <<trains, tracks, conflicts, time_horizon, hB, base, branch,
                   status, sol, result>>
    /\ UNCHANGED <<time_step, monitor_vars, augmentation>>

NextOptimize == Next \/ CreateModelRaises

\* A second optimize call on the same RailwayOptimizer, running in another
\* thread while this call waits for its solver: its lines 56-59 store its
\* horizon in self.config and the arena of its model in self.variables.  This
\* call's model and solver are locals and stay as they are, but from now on
\* _extract_schedule and _calculate_metrics look the solver's values up
\* through the other model's variables and over the other horizon: what they
\* read is not determined by the code, any values of the domains may come.
\* The other request carries the same trains and tracks, and the families
\* outside `branch` read as their lower bounds, so the objective value the
\* solver itself reports is the one of the values read.
OverlappingCreateModel ==
    /\ pc = "solved"
    /\ variables.call = "this"
    /\ \E other_horizon \in 0..Min2(MaxH, 3) :
         /\ config_H' = other_horizon
         /\ variables' = Arena("other", other_horizon)
    /\ UNCHANGED <<trains, tracks, conflicts, time_horizon, hB, base, branch,
                   pc, status, outcome, result, message, http>>
    /\ UNCHANGED <<time_step, monitor_vars, augmentation>>
    /\ IF solve_model_returns_solver(status)
       THEN sol' \in [x : XDomain', s : SDomain', c : CDomain', p : PDomain',
                      j : JDomain']
       ELSE sol' = sol

\* A lookup through the other model's variables that the solver cannot
\* answer raises inside _extract_schedule; optimize_schedule turns the
\* exception into HTTP 500.
RaiseOverlapped ==
    /\ pc = "solved"
    /\ variables.call = "other"
    /\ solve_model_returns_solver(status)
    /\ outcome' = "error"
    /\ message' = "lookup through the variables of another model"
    /\ http' = HttpError
    /\ pc' = "done"
    /\ UNCHANGED <<trains, tracks, conflicts, time_horizon, hB, base, branch,
                   config_H, status, sol, result>>
    /\ UNCHANGED <<time_step, variables, monitor_vars, augmentation>>

NextOverlap == Next \/ OverlappingCreateModel \/ RaiseOverlapped

\* ------------------------------------------------- performance monitor
\* metrics_history and current_metrics hold references to OptimizationMetrics
\* objects: a reference is the rank of the object among those
\* start_optimization created, `metrics_objects` maps a reference to the object's
\* fields, and NoMetrics is None.
OptimizationMetrics(num_trains, num_tracks, num_conflicts) ==
    [num_trains |-> num_trains, num_tracks |-> num_tracks,
     num_conflicts |-> num_conflicts, ended |-> FALSE,
     solve_time_seconds |-> 0, objective_value |-> 0,
     conflicts_resolved |-> 0, total_delay_minutes |-> 0,
     solver_status |-> "", variables_count |-> 0, constraints_count |-> 0]

\* Sizes a caller reports at start, and what it reports at end: the seconds
\* the clock advanced since start, the objective, the conflicts resolved,
\* the total delay and the solver's status.
StartArgs == [num_trains |-> 2, num_tracks |-> 1, num_conflicts |-> 1]

EndArgs(solve_time, objective, resolved, delay, st) ==
    [solve_time |-> solve_time, objective_value |-> objective,
     conflicts_resolved |-> resolved, total_delay |-> delay,
     solver_status |-> st]

\* The caller of the monitor.  "ring": runs that all end alike, more of them
\* than the history keeps.  "summary": runs that end well or badly, more of
\* them than the summary averages over.  In both every start is followed by
\* its end before the next start.  "free": a few runs whose caller calls
\* the methods in any order: an end without a start, two ends after one
\* start, a start while a run is open.
RunCap == IF workload = "ring" THEN HistoryLimit + MaxExtraRuns
          ELSE IF workload = "summary" THEN RecentRuns + MaxExtraRuns
          ELSE IF workload = "free" THEN MaxExtraRuns
          ELSE 0

EndChoices ==
    IF workload = "summary"
    THEN {EndArgs(1, 1, 1, 0, "OPTIMAL"), EndArgs(3, 0, 0, 0, "INFEASIBLE")}
    ELSE {EndArgs(1, 1, 1, 0, "OPTIMAL")}

RunOpen ==
    current_metrics # NoMetrics /\ ~metrics_objects[current_metrics].ended

CallerMayStart ==
    Len(metrics_objects) < RunCap /\ (workload = "free" \/ ~RunOpen)

CallerMayEnd ==
    IF workload = "free" THEN Len(metrics_history) <= RunCap
    ELSE workload # "none" /\ RunOpen

CallerMayAsk == workload # "none"

CallerMaySet == workload = "free"

\* The methods called on the monitor before the first start_optimization.
called_early(method) ==
    IF metrics_objects = <<>> THEN early_calls \cup {method} ELSE early_calls

\* Faulty variant of has_current_metrics: a run is taken to be open.
assumes_current_metrics == TRUE

\* `if not self.current_metrics: return`, `if self.current_metrics:`
has_current_metrics == current_metrics # NoMetrics

\* start_optimization
StartOptimization ==
    /\ CallerMayStart
    /\ metrics_objects' = Append(metrics_objects,
                      OptimizationMetrics(StartArgs.num_trains,
                                          StartArgs.num_tracks,
                                          StartArgs.num_conflicts))
    /\ current_metrics' = Len(metrics_objects) + 1
    /\ returned' = NoReturn
    /\ UNCHANGED <<metrics_history, workload, early_calls>>
    /\ UNCHANGED <<trains, tracks, conflicts, time_horizon, hB, base, branch,
                   pc, config_H, status, sol, outcome, result, message, http,
                   time_step, variables, augmentation>>

\* Faulty variant of keep_last_runs: the oldest runs are kept.
keep_first_runs(history) ==
    IF Len(history) > HistoryLimit THEN SubSeq(history, 1, HistoryLimit)
    ELSE history

\* end_optimization, `# Keep only last 100 runs`: metrics_history[-100:].
keep_last_runs(history) ==
    IF Len(history) > HistoryLimit
    THEN SubSeq(history, Len(history) - HistoryLimit + 1, Len(history))
    ELSE history

\* end_optimization: fills the current object in and appends it.
EndOptimization ==
    /\ CallerMayEnd
    /\ IF ~has_current_metrics
       THEN UNCHANGED <<metrics_objects, metrics_history>>
       ELSE /\ \E e \in EndChoices :
                 metrics_objects' =
                   [metrics_objects EXCEPT ![current_metrics] =
                      [@ EXCEPT !.ended = TRUE,
                                !.solve_time_seconds = e.solve_time,
                                !.objective_value = e.objective_value,
                                !.conflicts_resolved = e.conflicts_resolved,
                                !.total_delay_minutes = e.total_delay,
                                !.solver_status = e.solver_status]]
            /\ metrics_history' =
                 keep_last_runs(Append(metrics_history, current_metrics))
    /\ returned' = NoReturn
    /\ early_calls' = called_early("end_optimization")
    /\ UNCHANGED <<current_metrics, workload>>
    /\ UNCHANGED <<trains, tracks, conflicts, time_horizon, hB, base, branch,
                   pc, config_H, status, sol, outcome, result, message, http,
                   time_step, variables, augmentation>>

\* Python's round(num / den, digits) scaled to an integer: the integer
\* nearest to num / den, a tie going to the even one (the quotients that tie
\* here, over at most ten runs, are exact in binary floating point).
round_half_even(num, den) ==
    LET q == num \div den
        r == num % den
    IN  IF 2 * r < den THEN q
        ELSE IF 2 * r > den THEN q + 1
        ELSE IF q % 2 = 0 THEN q ELSE q + 1

\* Faulty variant of recent_runs: the summary averages over the whole history.
all_runs(history) == history

\* get_performance_summary, recent_runs = self.metrics_history[-10:]
recent_runs(history) ==
    IF Len(history) > RecentRuns
    THEN SubSeq(history, Len(history) - RecentRuns + 1, Len(history))
    ELSE history

\* get_performance_summary.  The averages are kept as integers: solve time
\* and objective in hundredths (round(., 2)), conflicts resolved and the
\* success rate in tenths (round(., 1)).
performance_summary ==
    IF metrics_history = <<>>
    THEN [message |-> "No optimization runs recorded"]
    ELSE LET recent == recent_runs(metrics_history)
             n == Len(recent)
             m(i) == metrics_objects[recent[i]]
             last == metrics_objects[metrics_history[Len(metrics_history)]]
             successes == Cardinality({i \in 1..n :
                              m(i).solver_status \in {"OPTIMAL", "FEASIBLE"}})
         IN  [total_runs |-> Len(metrics_history),
              recent_runs |-> n,
              average_solve_time_seconds100 |->
                 round_half_even(
                    100 * SumSeq([i \in 1..n |-> m(i).solve_time_seconds]), n),
              average_objective_value100 |->
                 round_half_even(
                    100 * SumSeq([i \in 1..n |-> m(i).objective_value]), n),
              average_conflicts_resolved10 |->
                 round_half_even(
                    10 * SumSeq([i \in 1..n |-> m(i).conflicts_resolved]), n),
              success_rate_percent10 |->
                 round_half_even(1000 * successes, n),
              last_run |-> [solve_time |-> last.solve_time_seconds,
                            objective |-> last.objective_value,
                            status |-> last.solver_status,
                            trains |-> last.num_trains,
                            conflicts_resolved |-> last.conflicts_resolved]]

GetPerformanceSummary ==
    /\ CallerMayAsk
    /\ returned' = performance_summary
    /\ early_calls' = called_early("get_performance_summary")
    /\ UNCHANGED <<metrics_history, current_metrics, metrics_objects,
                   workload>>
    /\ UNCHANGED <<trains, tracks, conflicts, time_horizon, hB, base, branch,
                   pc, config_H, status, sol, outcome, result, message, http,
                   time_step, variables, augmentation>>

NextMonitor == StartOptimization \/ EndOptimization \/ GetPerformanceSummary

\* The sizes a caller reports with set_model_complexity.
ComplexityArgs == [variables_count |-> 4, constraints_count |-> 7]

\* set_model_complexity
SetModelComplexity ==
    /\ CallerMaySet
    /\ IF has_current_metrics
       THEN metrics_objects' =
              [metrics_objects EXCEPT ![current_metrics] =
                 [@ EXCEPT !.variables_count = ComplexityArgs.variables_count,
                           !.constraints_count =
                              ComplexityArgs.constraints_count]]
       ELSE UNCHANGED metrics_objects
    /\ returned' = NoReturn
    /\ early_calls' = called_early("set_model_complexity")
    /\ UNCHANGED <<metrics_history, current_metrics, workload>>
    /\ UNCHANGED <<trains, tracks, conflicts, time_horizon, hB, base, branch,
                   pc, config_H, status, sol, outcome, result, message, http,
                   time_step, variables, augmentation>>

NextFree ==
    \/ StartOptimization
    \/ EndOptimization
    \/ GetPerformanceSummary
    \/ SetModelComplexity

\* ---------------------------------------------------------------- inputs
\* Segment ids: "X-Y-001" style ids, and the id "X-Y" that equals the name
\* _get_route_segments_from_train formats.
SegXY == <<"X", "Y", "001">>
SegYZ == <<"Y", "Z", "001">>
NameXY == <<"X", "Y">>

\* Trains over the one segment X-Y, listed in the given id order.
TwoTrains(first, second) ==
    <<TrainData(first, <<"X", "Y">>, 1, 0),
      TrainData(second, <<"X", "Y">>, 1, 0)>>

ThreeTrains ==
    <<TrainData(1, <<"X", "Y">>, 1, 0), TrainData(2, <<"X", "Y">>, 2, 0),
      TrainData(3, <<"Y", "X">>, 3, 0)>>

\* One train over the two segments X-Y, Y-Z.
OneTrain == <<TrainData(1, <<"X", "Y", "Z">>, 1, 0)>>

OneTrack(capacity) == <<TrackData(SegXY, "X", "Y", capacity)>>

TwoTracks == <<TrackData(SegXY, "X", "Y", 1), TrackData(SegYZ, "Y", "Z", 1)>>

\* hmax caps the horizons a network is run with.
Networks ==
    {[trains |-> TwoTrains(1, 2), tracks |-> OneTrack(1), hmax |-> MaxH],
     [trains |-> TwoTrains(2, 1), tracks |-> OneTrack(2), hmax |-> MaxH],
     [trains |-> ThreeTrains, tracks |-> OneTrack(2), hmax |-> 3],
     [trains |-> OneTrain, tracks |-> TwoTracks, hmax |-> MaxH],
     [trains |-> OneTrain, tracks |-> <<TwoTracks[2], TwoTracks[1]>>,
      hmax |-> MaxH]}

\* PerformanceMonitor.__init__
FreshMonitor ==
    /\ metrics_history = <<>>
    /\ current_metrics = NoMetrics
    /\ metrics_objects = <<>>
    /\ returned = NoReturn
    /\ early_calls = {}

\* The optimizer and the monitor as constructed, before the call; nobody
\* calls the monitor.
InitInstance ==
    /\ time_step = DefaultTimeStep
    /\ variables = NoArena
    /\ FreshMonitor
    /\ workload = "none"
    /\ augmentation = NoAugmentation

InitCall ==
    /\ conflicts = <<>>
    /\ pc = "idle"
    /\ config_H = DefaultHorizon
    /\ status = "none"
    /\ sol = NoSol
    /\ outcome = "none"
    /\ result = NoResult
    /\ message = ""
    /\ http = 0

\* Occupancy: the schedule claims.  The solver run explores x.
Init ==
    /\ \E n \in Networks :
         /\ trains = n.trains
         /\ tracks = n.tracks
         /\ time_horizon \in (-1)..Min2(MaxH, n.hmax)
    /\ hB \in {0, 2}
    /\ base \in {0, 3}
    /\ branch = {"x"}
    /\ InitInstance
    /\ InitCall

Spec == Init /\ [][Next]_vars

\* Timing: one train over X-Y with a scheduled start, the segment id either
\* equal to the formatted name or not, in a call that runs at midnight (tick
\* t is minute t of the day).  The solver run explores x and s.
InitTiming ==
    /\ \E sigma \in {0, 2} : trains = <<TrainData(1, <<"X", "Y">>, 1, sigma)>>
    /\ \E sid \in {NameXY, SegXY} : tracks = <<TrackData(sid, "X", "Y", 1)>>
    /\ time_horizon \in 0..MaxH
    /\ hB = 2
    /\ base = 0
    /\ branch = {"x", "s"}
    /\ InitInstance
    /\ InitCall

SpecTiming == InitTiming /\ [][Next]_vars

\* Platforms: two trains that visit X and Y, on a segment that holds both at
\* once, over a horizon of one tick.  The solver run explores x and p.
InitPlatform ==
    /\ trains = TwoTrains(1, 2)
    /\ tracks = OneTrack(2)
    /\ time_horizon = 1
    /\ hB = 2
    /\ base = 3
    /\ branch = {"x", "p"}
    /\ InitInstance
    /\ InitCall

SpecPlatform == InitPlatform /\ [][Next]_vars

\* Routes: one train over a network that lacks a segment of its route (the
\* derived chain is shorter, or joins segments that do not meet), that joins
\* two stations twice, or that is complete.  The solver run explores x.
SegXY2 == <<"X", "Y", "002">>
SegZW == <<"Z", "W", "001">>

RouteNetworks ==
    {[trains |-> OneTrain, tracks |-> OneTrack(1)],
     [trains |-> <<TrainData(1, <<"X", "Y", "Z", "W">>, 1, 0)>>,
      tracks |-> <<TrackData(SegXY, "X", "Y", 1),
                   TrackData(SegZW, "Z", "W", 1)>>],
     [trains |-> <<TrainData(1, <<"X", "Y">>, 1, 0)>>,
      tracks |-> <<TrackData(SegXY, "X", "Y", 1),
                   TrackData(SegXY2, "Y", "X", 1)>>],
     [trains |-> OneTrain, tracks |-> TwoTracks]}

InitRoute ==
    /\ \E n \in RouteNetworks :
         /\ trains = n.trains
         /\ tracks = n.tracks
    /\ time_horizon \in 1..Min2(MaxH, 3)
    /\ hB = 2
    /\ base = 0
    /\ branch = {"x"}
    /\ InitInstance
    /\ InitCall

SpecRoute == InitRoute /\ [][Next]_vars

\* Conflicts: two trains over X-Y and one conflict record: a track
\* occupation conflict of both trains on the segment, one that names a single
\* train, one that names a train the request does not hold, one of another
\* kind, one over a resource that is not a track, and one that names a
\* train twice.  The solver run explores x and c.
PLATFORM_CONFLICT == "platform_conflict"

PlatformX1 == <<"X", "P1">>

ConflictInputs ==
    {<<ConflictData("Q1", <<1, 2>>, SegXY, TRACK_OCCUPATION, 2)>>,
     <<ConflictData("Q1", <<1>>, SegXY, TRACK_OCCUPATION, 2)>>,
     <<ConflictData("Q1", <<1, 3>>, SegXY, TRACK_OCCUPATION, 2)>>,
     <<ConflictData("Q1", <<1, 2>>, SegXY, PLATFORM_CONFLICT, 2)>>,
     <<ConflictData("Q1", <<1, 2>>, PlatformX1, TRACK_OCCUPATION, 2)>>,
     <<ConflictData("Q1", <<1, 1, 2>>, SegXY, TRACK_OCCUPATION, 2)>>}

InitConflict ==
    /\ trains = TwoTrains(1, 2)
    /\ \E capacity \in {1, 2} : tracks = OneTrack(capacity)
    /\ time_horizon \in 0..Min2(MaxH, 2)
    /\ hB = 2
    /\ base = 0
    /\ branch = {"x", "c"}
    /\ InitInstance
    /\ conflicts \in ConflictInputs
    /\ pc = "idle"
    /\ config_H = DefaultHorizon
    /\ status = "none"
    /\ sol = NoSol
    /\ outcome = "none"
    /\ result = NoResult
    /\ message = ""
    /\ http = 0

SpecConflict == InitConflict /\ [][Next]_vars

\* Journey: one train over X-Y, the segment id either equal to the formatted
\* name or not.  The solver run explores x and j.
InitJourney ==
    /\ trains = <<TrainData(1, <<"X", "Y">>, 1, 0)>>
    /\ \E sid \in {NameXY, SegXY} : tracks = <<TrackData(sid, "X", "Y", 1)>>
    /\ time_horizon \in 0..Min2(MaxH, 4)
    /\ hB = 2
    /\ base = 0
    /\ branch = {"x", "j"}
    /\ InitInstance
    /\ InitCall

SpecJourney == InitJourney /\ [][Next]_vars

\* Overlap: one train over X-Y; a second call on the same optimizer may
\* build its model while this call is between Solve and extraction.
InitOverlap ==
    /\ trains = <<TrainData(1, <<"X", "Y">>, 1, 0)>>
    /\ tracks = OneTrack(1)
    /\ time_horizon \in 1..Min2(MaxH, 3)
    /\ hB = 2
    /\ base = 0
    /\ branch = {"x"}
    /\ InitInstance
    /\ InitCall

SpecOverlap == InitOverlap /\ [][NextOverlap]_vars

\* Objective: one train over X-Y and at most one conflict, with priorities
\* and severities inside and outside 1..5 (TrainData.priority and
\* ConflictData.severity are plain ints).  The conflict names one train, so
\* no constraint binds its c.  The solver run explores x, s, c and j.
InitObjective ==
    /\ \E priority \in {1, 5, 7} :
         trains = <<TrainData(1, <<"X", "Y">>, priority, 0)>>
    /\ tracks = OneTrack(1)
    /\ time_horizon \in 0..Min2(MaxH, 2)
    /\ hB = 2
    /\ base = 0
    /\ branch = {"x", "s", "c", "j"}
    /\ InitInstance
    /\ \/ conflicts = <<>>
       \/ \E severity \in {2, 7} :
            conflicts =
              <<ConflictData("Q1", <<1>>, SegXY, TRACK_OCCUPATION, severity)>>
    /\ pc = "idle"
    /\ config_H = DefaultHorizon
    /\ status = "none"
    /\ sol = NoSol
    /\ outcome = "none"
    /\ result = NoResult
    /\ message = ""
    /\ http = 0

SpecObjective == InitObjective /\ [][Next]_vars

\* Empty and nearly empty requests: no train or one, no track or one, no
\* conflict or one; the request without trains also with the default
\* horizon.  The solver run explores x and c.
InitEmpty ==
    /\ trains \in {<<>>, <<TrainData(1, <<"X", "Y">>, 1, 0)>>}
    /\ tracks \in {<<>>, OneTrack(1)}
    /\ conflicts \in
         {<<>>, <<ConflictData("Q1", <<1>>, SegXY, TRACK_OCCUPATION, 2)>>}
    /\ \/ time_horizon \in 0..MaxH
       \/ trains = <<>> /\ time_horizon = DefaultHorizon
    /\ hB = 2
    /\ base = 0
    /\ branch = {"x", "c"}
    /\ InitInstance
    /\ pc = "idle"
    /\ config_H = DefaultHorizon
    /\ status = "none"
    /\ sol = NoSol
    /\ outcome = "none"
    /\ result = NoResult
    /\ message = ""
    /\ http = 0

SpecEmpty == InitEmpty /\ [][NextOptimize]_vars

\* Time grid: one train over X-Y, run with the default time step and with a
\* configuration whose time_step_minutes is 2.  The solver run explores x.
InitGrid ==
    /\ trains = <<TrainData(1, <<"X", "Y">>, 1, 0)>>
    /\ tracks = OneTrack(1)
    /\ time_horizon \in 0..MaxH
    /\ hB = 2
    /\ base \in {0, 3}
    /\ branch = {"x"}
    /\ time_step \in {DefaultTimeStep, 2}
    /\ variables = NoArena
    /\ FreshMonitor
    /\ workload = "none"
    /\ augmentation = NoAugmentation
    /\ InitCall

SpecGrid == InitGrid /\ [][Next]_vars

\* The monitor alone: a fresh monitor and a caller that runs one of the two
\* workloads; no optimize call is in progress.
InitMonitor ==
    /\ trains = <<>>
    /\ tracks = <<>>
    /\ time_horizon = DefaultHorizon
    /\ hB = 2
    /\ base = 0
    /\ branch = {}
    /\ InitCall
    /\ time_step = DefaultTimeStep
    /\ variables = NoArena
    /\ FreshMonitor
    /\ workload \in {"ring", "summary"}
    /\ augmentation = NoAugmentation

SpecMonitor == InitMonitor /\ [][NextMonitor]_vars

\* The monitor with a caller that keeps no order among the methods.
InitFree ==
    /\ trains = <<>>
    /\ tracks = <<>>
    /\ time_horizon = DefaultHorizon
    /\ hB = 2
    /\ base = 0
    /\ branch = {}
    /\ InitCall
    /\ time_step = DefaultTimeStep
    /\ variables = NoArena
    /\ FreshMonitor
    /\ workload = "free"
    /\ augmentation = NoAugmentation

SpecFree == InitFree /\ [][NextFree]_vars

\* ------------------------------------------- advanced constraint builder
\* AdvancedConstraintBuilder adds to the model of _create_model and reads
\* its x.  x[train][segment] is a dict keyed by the ticks of time_slots, so
\* reading it at any other tick raises KeyError.
reads_missing_tick(ticks) == \E t \in ticks : t \notin time_slots

\* `if track_id in x[train.train_id]`: x holds a row per track of the request.
has_row(track_id) == track_id \in SegmentIds

\* add_maintenance_window_constraints, range(start_time, min(end_time + 1, 240))
maintenance_ticks(window) ==
    window.start_minute .. (Min2(window.end_minute + 1, AdvancedSlots) - 1)

maintenance_raises(window) ==
    /\ Len(trains) > 0
    /\ has_row(window.track_id)
    /\ reads_missing_tick(maintenance_ticks(window))

\* The constraints add_maintenance_window_constraints adds for one window.
add_maintenance_window_constraints(a, window) ==
    \A i \in 1..Len(trains) :
      has_row(window.track_id) =>
        \A t \in maintenance_ticks(window) :
           t \notin a.x[trains[i].train_id][window.track_id]

\* next((t for t in tracks if t.segment_id == track_id), None)
find_track(track_id) ==
    LET found == {k \in 1..Len(tracks) : tracks[k].segment_id = track_id}
    IN  IF found = {} THEN 0 ELSE Min(found)

\* A track of opt-engine's schemas.TrackData has no distance_km and no
\* max_speed_kmh; reading them raises AttributeError.
has_geometry(track) ==
    {"distance_km", "max_speed_kmh"} \subseteq DOMAIN track

\* add_speed_restriction_constraints, lines 81-83:
\*   int((d / v') * 60 - (d / v_max) * 60)
\* For v' < v_max the difference is positive and int() drops its fraction:
\* the floor of 60 d (v_max - v') / (v' v_max).
additional_time(track, restricted_speed) ==
    (60 * track.distance_km * (track.max_speed_kmh - restricted_speed))
        \div (restricted_speed * track.max_speed_kmh)

\* The ticks at which add_speed_restriction_constraints reads a row:
\* t, t - 1 and t + dt for t in range(240 - additional_time) and
\* dt in range(1, min(additional_time + 1, 240 - t)).
continued_ticks(added, t) ==
    {t + dt : dt \in 1..(Min2(added + 1, AdvancedSlots - t) - 1)}

speed_restriction_ticks(added) ==
    UNION {{t} \cup {u \in {t - 1} : t > 0} \cup continued_ticks(added, t) :
           t \in 0..(AdvancedSlots - added - 1)}

\* The constraints add_speed_restriction_constraints adds for one restricted
\* track: every one is enforced only if its boolean `starting` holds.
add_speed_restriction_constraints(a, track_id, added) ==
    \A i \in 1..Len(trains) :
      has_row(track_id) =>
        LET row == a.x[trains[i].train_id][track_id]
        IN  \A t \in 0..(AdvancedSlots - added - 1) :
              \E starting \in BOOLEAN :
                 starting =>
                   /\ (t > 0) => (t - 1) \notin row
                   /\ t \in row
                   /\ continued_ticks(added, t) \subseteq row

\* sorted(trains, key=lambda t: t.priority): a stable sort on priority.
insert_by_priority(sorted, train) ==
    LET n == Cardinality({i \in 1..Len(sorted) :
                             sorted[i].priority <= train.priority})
    IN  SubSeq(sorted, 1, n) \o <<train>> \o SubSeq(sorted, n + 1, Len(sorted))

RECURSIVE sorted_by_priority(_)
sorted_by_priority(q) ==
    IF q = <<>> THEN <<>>
    ELSE insert_by_priority(sorted_by_priority(SubSeq(q, 1, Len(q) - 1)),
                            q[Len(q)])

\* add_priority_overtaking_constraints, station_tracks.  `station in
\* track.from_station` is a substring test; no station code of the inputs
\* is part of another, so it is the equality of the codes.
station_tracks(station) ==
    {k \in 1..Len(tracks) :
        station = tracks[k].from_station \/ station = tracks[k].to_station}

\* The (high, low) pairs of the double loop over sorted_trains.
priority_pairs ==
    {pr \in (1..Len(trains)) \X (1..Len(trains)) : pr[1] < pr[2]}

overtaking_raises(station) ==
    /\ station_tracks(station) # {}
    /\ priority_pairs # {}
    /\ reads_missing_tick(0..(AdvancedSlots - 1))

\* The constraints add_priority_overtaking_constraints adds for one station:
\* both are implications of the boolean both_want.
add_priority_overtaking_constraints(a, station) ==
    LET sorted_trains == sorted_by_priority(trains)
    IN  \A k \in station_tracks(station) : \A pr \in priority_pairs :
          LET high == a.x[sorted_trains[pr[1]].train_id][tracks[k].segment_id]
              low == a.x[sorted_trains[pr[2]].train_id][tracks[k].segment_id]
          IN  \A t \in 0..(AdvancedSlots - 1) :
                \E both_want_track \in BOOLEAN :
                   both_want_track => (t \in high /\ t \notin low)

\* What the one call of the advanced builder added to the model.
AdvancedConstraints(a) ==
    IF augmentation.kind = "maintenance"
    THEN add_maintenance_window_constraints(a, augmentation.window)
    ELSE IF augmentation.kind = "speed" /\ augmentation.found
    THEN add_speed_restriction_constraints(a, augmentation.track_id,
                                           augmentation.additional_time)
    ELSE IF augmentation.kind = "overtaking"
    THEN add_priority_overtaking_constraints(a, augmentation.station)
    ELSE TRUE

AdvancedSolutions == {a \in Solutions : AdvancedConstraints(a)}

\* Inputs of the advanced builder: a maintenance window over a track of the
\* request, at the start of the day or across the builder's tick 239; a
\* speed restriction on a track of the request or on an unknown one; an
\* overtaking station with or without incident tracks.
WindowSpans == {<<0, 1>>, <<1, 3>>, <<AdvancedSlots - 1, AdvancedSlots>>}

WindowInputs ==
    {[track_id |-> sid, start_minute |-> span[1], end_minute |-> span[2]] :
        sid \in SegmentIds, span \in WindowSpans}

UnknownSegment == <<"Q", "R", "001">>

RestrictedSpeeds == {60, 90}

OvertakingStations == {"X", "W"}

\* Maintenance(model, x, [window]): the builder adds the window's constraints
\* or leaves with the KeyError of the first missing tick.
AddMaintenanceWindow ==
    /\ pc = "created"
    /\ \E window \in WindowInputs :
         IF maintenance_raises(window)
         THEN /\ augmentation' = [kind |-> "maintenance", window |-> window,
                                  raised |-> "KeyError"]
              /\ pc' = "done"
              /\ outcome' = "error"
              /\ message' = "KeyError"
         ELSE /\ augmentation' = [kind |-> "maintenance", window |-> window,
                                  raised |-> ""]
              /\ pc' = "augmented"
              /\ UNCHANGED <<outcome, message>>
    /\ UNCHANGED <<trains, tracks, conflicts, time_horizon, hB, base, branch,
                   config_H, status, sol, result, http>>
    /\ UNCHANGED <<time_step, variables, monitor_vars>>

\* The record of one add_speed_restriction_constraints call;
\* additional_time is 0 where the builder did not get to compute it.
SpeedRestriction(track_id, restricted_speed, found, added, raised) ==
    [kind |-> "speed", track_id |-> track_id,
     restricted_speed |-> restricted_speed, found |-> found,
     additional_time |-> added, raised |-> raised]

\* add_speed_restriction_constraints(trains, tracks, x, {track_id: speed})
AddSpeedRestriction ==
    /\ pc = "created"
    /\ \E track_id \in SegmentIds \cup {UnknownSegment} :
       \E restricted_speed \in RestrictedSpeeds :
         LET k == find_track(track_id)
             added == additional_time(tracks[k], restricted_speed)
             done == SpeedRestriction(track_id, restricted_speed, k # 0,
                        IF k # 0 /\ has_geometry(tracks[k]) THEN added ELSE 0,
                        IF k = 0 THEN ""
                        ELSE IF ~has_geometry(tracks[k]) THEN "AttributeError"
                        ELSE IF Len(trains) > 0 /\ reads_missing_tick(
                                    speed_restriction_ticks(added))
                        THEN "KeyError"
                        ELSE "")
         IN  /\ augmentation' = done
             /\ IF done.raised = ""
                THEN pc' = "augmented" /\ UNCHANGED <<outcome, message>>
                ELSE /\ pc' = "done"
                     /\ outcome' = "error"
                     /\ message' = done.raised
    /\ UNCHANGED <<trains, tracks, conflicts, time_horizon, hB, base, branch,
                   config_H, status, sol, result, http>>
    /\ UNCHANGED <<time_step, variables, monitor_vars>>

\* add_priority_overtaking_constraints(trains, tracks, x, {station})
AddPriorityOvertaking ==
    /\ pc = "created"
    /\ \E station \in OvertakingStations :
         IF overtaking_raises(station)
         THEN /\ augmentation' = [kind |-> "overtaking", station |-> station,
                                  raised |-> "KeyError"]
              /\ pc' = "done"
              /\ outcome' = "error"
              /\ message' = "KeyError"
         ELSE /\ augmentation' = [kind |-> "overtaking", station |-> station,
                                  raised |-> ""]
              /\ pc' = "augmented"
              /\ UNCHANGED <<outcome, message>>
    /\ UNCHANGED <<trains, tracks, conflicts, time_horizon, hB, base, branch,
                   config_H, status, sol, result, http>>
    /\ UNCHANGED <<time_step, variables, monitor_vars>>

\* solver.Solve(model) on the augmented model
SolveAdvanced ==
    /\ pc = "augmented"
    /\ LET sols == AdvancedSolutions
       IN  \E st \in SolverStatuses(sols) :
             /\ status' = st
             /\ sol' \in (IF st = "OPTIMAL" THEN Optimal(sols)
                          ELSE IF st = "FEASIBLE" THEN sols
                          ELSE {NoSol})
    /\ pc' = "solved"
    /\ UNCHANGED <<trains, tracks, conflicts, time_horizon, hB, base, branch,
                   config_H, outcome, result, message, http>>
    /\ UNCHANGED <<time_step, variables, monitor_vars, augmentation>>

NextAdvanced ==
    \/ CreateModel
    \/ AddMaintenanceWindow
    \/ AddSpeedRestriction
    \/ AddPriorityOvertaking
    \/ SolveAdvanced
    \/ Return
    \/ Raise

\* A track that carries the geometry of data-service's TrackData.
TrackDataKm(sid, from, to, capacity, distance_km, max_speed_kmh) ==
    [segment_id |-> sid, from_station |-> from, to_station |-> to,
     capacity |-> capacity, distance_km |-> distance_km,
     max_speed_kmh |-> max_speed_kmh]

\* Advanced builder: a priority-3 train listed before a priority-1 train,
\* both over X-Y, the track with or without geometry, a short horizon or one
\* of at least 240 minutes.  The solver run explores x.
InitAdvanced ==
    /\ trains = <<TrainData(1, <<"X", "Y">>, 3, 0),
                  TrainData(2, <<"X", "Y">>, 1, 0)>>
    /\ tracks \in {OneTrack(1),
                   <<TrackDataKm(SegXY, "X", "Y", 1, 10, 120)>>}
    /\ time_horizon \in {2, MaxH, AdvancedSlots, AdvancedSlots + 1}
    /\ hB = 0
    /\ base = 0
    /\ branch = {"x"}
    /\ InitInstance
    /\ InitCall

SpecAdvanced == InitAdvanced /\ [][NextAdvanced]_vars

\* Route derivation: one train over X, Y, Z in either direction; the
\* tracks X-Y-001, X-Y-002 (entered as Y to X) and Y-Z-001 in several list
\* orders, or a network that lacks one of the two links.  The solver run
\* explores x.
DerivationTracks ==
    LET xy1 == TrackData(SegXY, "X", "Y", 1)
        xy2 == TrackData(SegXY2, "Y", "X", 1)
        yz == TrackData(SegYZ, "Y", "Z", 1)
    IN  {<<xy1, xy2, yz>>, <<xy2, xy1, yz>>, <<yz, xy2, xy1>>, <<xy1>>,
         <<yz>>}

InitDerivation ==
    /\ \E route \in {<<"X", "Y", "Z">>, <<"Z", "Y", "X">>} :
         trains = <<TrainData(1, route, 1, 0)>>
    /\ tracks \in DerivationTracks
    /\ time_horizon \in 1..Min2(MaxH, 2)
    /\ hB = 2
    /\ base = 0
    /\ branch = {"x"}
    /\ InitInstance
    /\ InitCall

SpecDerivation == InitDerivation /\ [][Next]_vars

\* Entry platforms: one train over X-Y and Y-Z, with its route or with an
\* empty route, over a horizon of one tick.  The solver run explores x and p.
InitEntryPlatform ==
    /\ trains \in {OneTrain, <<TrainData(1, <<>>, 1, 0)>>}
    /\ tracks = TwoTracks
    /\ time_horizon = 1
    /\ hB = 2
    /\ base \in {0, 3}
    /\ branch = {"x", "p"}
    /\ InitInstance
    /\ InitCall

SpecEntryPlatform == InitEntryPlatform /\ [][Next]_vars

\* ================================================================ claims
Window == hB + MinSeparation

\* Indices of the entries of a schedule on segment sid whose interval
\* [start, end) contains the instant tau.
EntriesOn(schedule, sid, tau) ==
    {n \in 1..Len(schedule) :
        /\ schedule[n].segment_id = sid
        /\ schedule[n].start_time <= tau
        /\ tau < schedule[n].end_time}

\* The entries of train tid, in schedule order.
EntriesOfTrain(schedule, tid) ==
    LET Own(e) == e.train_id = tid IN SelectSeq(schedule, Own)

\* The entries of train tid on segment sid, in schedule order.
EntriesOfPair(schedule, tid, sid) ==
    LET Own(e) == e.train_id = tid /\ e.segment_id = sid
    IN  SelectSeq(schedule, Own)

\* The maximal runs <<first tick, tick after the last>> of a row.
MaximalRuns(row) ==
    {r \in (0..config_H) \X (0..config_H) :
        /\ r[1] < r[2]
        /\ \A t \in r[1]..(r[2] - 1) : t \in row
        /\ (r[1] - 1) \notin row
        /\ r[2] \notin row}

\* C1 (P1 capacity): in every returned schedule, for every track segment and
\* every minute of the horizon, at most capacity(k) entries on the segment
\* have an interval [start, end) that contains the minute.
C1_Capacity ==
    outcome = "result" =>
      \A k \in 1..Len(tracks) :
        \A tau \in base..(base + time_horizon - 1) :
          Cardinality(EntriesOn(result.schedule, tracks[k].segment_id, tau))
             <= tracks[k].capacity

\* C1 witness: a returned schedule in which more trains than the capacity
\* have an entry on a segment and some minute holds exactly capacity entries.
C1_Witness ==
    /\ outcome = "result"
    /\ \E k \in 1..Len(tracks) :
         /\ Cardinality({n \in 1..Len(result.schedule) :
               result.schedule[n].segment_id = tracks[k].segment_id})
              > tracks[k].capacity
         /\ \E tau \in base..(base + time_horizon - 1) :
              Cardinality(EntriesOn(result.schedule, tracks[k].segment_id, tau))
                 = tracks[k].capacity

\* C2 (P2 headway): in every returned schedule any two distinct entries on
\* the same segment are separated by the window hB + 3 in one direction or
\* the other, whichever train comes first in the input list.
C2_Headway ==
    outcome = "result" =>
      \A n \in 1..Len(result.schedule) : \A m \in 1..Len(result.schedule) :
        (n # m /\ result.schedule[n].segment_id = result.schedule[m].segment_id)
          => \/ result.schedule[m].start_time
                  >= result.schedule[n].end_time + Window
             \/ result.schedule[n].start_time
                  >= result.schedule[m].end_time + Window

\* C3 (P3 continuity): in every returned schedule the entries of each train,
\* in start order, are a contiguous chain over the train's route: entry i is
\* on the i-th derived segment and entry i+1 starts where entry i ends.
C3_Continuity ==
    outcome = "result" =>
      \A i \in 1..Len(trains) :
        LET own == EntriesOfTrain(result.schedule, trains[i].train_id)
            chain == get_route_segments(trains[i])
        IN  /\ Len(own) = Len(chain)
            /\ \A n \in 1..Len(own) : own[n].segment_id = chain[n]
            /\ \A n \in 1..(Len(own) - 1) :
                 own[n + 1].start_time = own[n].end_time

\* Two trains are present at a station at tick t when each occupies a
\* segment incident to the station at t.
AtStation(tid, station, t) ==
    \E k \in 1..Len(tracks) :
       /\ station \in {tracks[k].from_station, tracks[k].to_station}
       /\ t \in sol.x[tid][tracks[k].segment_id]

\* C4 (P4 platform uniqueness): in every satisfying assignment two different
\* trains that both visit a station and are present there at the same time
\* hold different platform numbers at that station.
C4_PlatformUniqueness ==
    sol # NoSol =>
      \A t1 \in TrainIds : \A t2 \in TrainIds :
        t1 # t2 =>
          \A station \in RouteStations(t1) \cap RouteStations(t2) :
            (\E t \in time_slots :
                AtStation(t1, station, t) /\ AtStation(t2, station, t))
              => sol.p[<<t1, station>>] # sol.p[<<t2, station>>]

\* C5 (P5 start delay bound): for every train the first schedule entry starts
\* no earlier than the scheduled start sigma and no later than
\* sigma + min(120, H/2), and the first segment of the route is not occupied
\* before sigma + s[t].
C5_StartDelayBound ==
    outcome = "result" =>
      \A i \in 1..Len(trains) :
        LET tid == trains[i].train_id
            own == EntriesOfTrain(result.schedule, tid)
            sigma == get_scheduled_start_minutes(trains[i])
            chain == get_route_segments(trains[i])
        IN  /\ own # <<>> =>
                 /\ own[1].start_time >= sigma
                 /\ own[1].start_time
                      <= sigma + Min2(MaxStartDelay, time_horizon \div 2)
            /\ chain # <<>> =>
                 \A t \in time_slots :
                    t < sigma + sol.s[tid] => t \notin sol.x[tid][chain[1]]

\* C6 (P6 completion within horizon): every entry of a returned schedule
\* starts at or after the base instant, ends at or before base + H, and
\* starts before it ends.
C6_WithinHorizon ==
    outcome = "result" =>
      \A n \in 1..Len(result.schedule) :
        /\ base <= result.schedule[n].start_time
        /\ result.schedule[n].start_time < result.schedule[n].end_time
        /\ result.schedule[n].end_time <= base + time_horizon

\* C6 witness: a returned entry that runs up to the end of the horizon, with
\* a base instant other than 0.
C6_Witness ==
    /\ outcome = "result"
    /\ base > 0
    /\ time_horizon >= 2
    /\ \E n \in 1..Len(result.schedule) :
         /\ result.schedule[n].end_time = base + time_horizon
         /\ result.schedule[n].start_time > base

\* C7 (P7 monotone extraction): the returned list is sorted ascending by
\* start instant, entries with equal start instants by ascending train id.
C7_SortedByStartThenTrain ==
    outcome = "result" =>
      \A n \in 1..(Len(result.schedule) - 1) :
        \/ result.schedule[n].start_time < result.schedule[n + 1].start_time
        \/ /\ result.schedule[n].start_time = result.schedule[n + 1].start_time
           /\ result.schedule[n].train_id <= result.schedule[n + 1].train_id

\* C8 (extractor runs): for every (train, segment) pair the schedule holds
\* exactly one entry per maximal run of ticks with x = 1, with the run's
\* instants, in chronological order.
C8_OneEntryPerRun ==
    outcome = "result" =>
      \A i \in 1..Len(trains) : \A k \in 1..Len(tracks) :
        LET row == sol.x[trains[i].train_id][tracks[k].segment_id]
            own == EntriesOfPair(result.schedule, trains[i].train_id,
                                 tracks[k].segment_id)
        IN  /\ Len(own) = Cardinality(MaximalRuns(row))
            /\ \A n \in 1..Len(own) :
                 <<own[n].start_time - base, own[n].end_time - base>>
                    \in MaximalRuns(row)
            /\ \A n \in 1..(Len(own) - 1) :
                 own[n].start_time < own[n + 1].start_time

\* C9 (solver outcome): a finished call has returned a result exactly when
\* the status is OPTIMAL or FEASIBLE, answered with HTTP 200; with any other
\* status it holds no result and has raised the one 'no feasible solution
\* found' error, answered with HTTP 500.
C9_SolverOutcome ==
    pc = "done" =>
      IF status \in {"OPTIMAL", "FEASIBLE"}
      THEN outcome = "result" /\ result # NoResult /\ message = ""
             /\ http = HttpOk
      ELSE outcome = "error" /\ result = NoResult
             /\ message = "Optimization failed - no feasible solution found"
             /\ http = HttpError

\* C9 witness: a call that ended with the error after the solver proved the
\* model infeasible.
C9_Witness ==
    pc = "done" /\ status = "INFEASIBLE" /\ outcome = "error"
      /\ http = HttpError

\* Scenario 6: two priority-1 trains routed over the same capacity-1 segment,
\* a window hB + 3 that exceeds the horizon, and a horizon long enough for
\* the two trains to run one after the other.
Scenario6 ==
    /\ Len(trains) = 2
    /\ Len(tracks) = 1
    /\ tracks[1].capacity = 1
    /\ \A i \in 1..Len(trains) :
          /\ trains[i].priority = 1
          /\ get_route_segments(trains[i]) = <<tracks[1].segment_id>>
    /\ time_horizon >= 2
    /\ Window > time_horizon

\* C10 (scenario 6): on a scenario-6 input the model has no satisfying
\* assignment, so the call ends with the infeasibility error.
C10_Scenario6Infeasible ==
    (Scenario6 /\ pc = "done") => (outcome = "error" /\ sol = NoSol)

\* Positions of a route whose station pair no track joins, and positions
\* whose pair more than one track joins.
UnconnectedPairs(train) ==
    {n \in 1..(Len(train.route) - 1) :
        MatchingTracks(train.route[n], train.route[n + 1]) = {}}

AmbiguousPairs(train) ==
    {n \in 1..(Len(train.route) - 1) :
        Cardinality(MatchingTracks(train.route[n], train.route[n + 1])) > 1}

\* C11 (route validation): a call with a train whose route has a consecutive
\* station pair that no track joins, or that more than one track joins, is
\* rejected: it ends with an error instead of a schedule built on a shorter
\* or non-contiguous segment chain.
C11_RouteValidation ==
    \A i \in 1..Len(trains) :
      (UnconnectedPairs(trains[i]) # {} \/ AmbiguousPairs(trains[i]) # {}) =>
         (pc = "done" => (outcome = "error" /\ result = NoResult))

\* C12 (C2 route completion): in every satisfying assignment each train with
\* a non-empty derived segment chain, a single-segment chain included,
\* occupies its last segment during at least one tick; hence the returned
\* schedule holds at least one entry for every such train.
C12_RouteCompletion ==
    \A i \in 1..Len(trains) :
      LET tid == trains[i].train_id
          chain == get_route_segments(trains[i])
      IN  chain # <<>> =>
            /\ sol # NoSol => sol.x[tid][chain[Len(chain)]] # {}
            /\ outcome = "result" =>
                  EntriesOfTrain(result.schedule, tid) # <<>>

\* C13 (C5 conflict reification): in every satisfying assignment, for every
\* conflict q over a track r and every tick, c[q] = 0 if at most cap(r) of
\* the conflict's trains occupy r at the tick and c[q] = 1 if at least
\* cap(r) + 1 do, whatever the kind of the conflict and however many of its
\* trains are trains of the request.
C13_ConflictReification ==
    sol # NoSol =>
      \A q \in 1..Len(conflicts) : \A k \in 1..Len(tracks) :
        tracks[k].segment_id = conflicts[q].resource_id =>
          \A tau \in time_slots :
            LET Tq == {conflicts[q].train_ids[n] :
                         n \in 1..Len(conflicts[q].train_ids)} \cap TrainIds
                occupying == {tid \in Tq :
                                tau \in sol.x[tid][tracks[k].segment_id]}
            IN  /\ Cardinality(occupying) <= tracks[k].capacity
                      => ~sol.c[conflicts[q].conflict_id]
                /\ Cardinality(occupying) >= tracks[k].capacity + 1
                      => sol.c[conflicts[q].conflict_id]

\* The last tick of a non-empty row.
LastTick(row) == CHOOSE m \in row : \A n \in row : n <= m

\* C14 (C6 completion tick): in every satisfying assignment, for every train
\* with a non-empty chain that occupies its last segment, j[t] is the first
\* tick after the last segment is released: the last occupied tick plus one.
C14_CompletionTick ==
    sol # NoSol =>
      \A i \in 1..Len(trains) :
        LET tid == trains[i].train_id
            chain == get_route_segments(trains[i])
        IN  (chain # <<>> /\ sol.x[tid][chain[Len(chain)]] # {}) =>
               sol.j[tid] = LastTick(sol.x[tid][chain[Len(chain)]]) + 1

\* The runs that have ended.  A reference is the rank of the run's start and
\* the callers of SpecMonitor end each run before they start the next, so
\* the runs end in the order of their references.
EndedRuns == {r \in 1..Len(metrics_objects) : metrics_objects[r].ended}

C16_Summary ==
    returned # NoReturn =>
      IF metrics_history = <<>>
      THEN returned = [message |-> "No optimization runs recorded"]
      ELSE LET total == Len(metrics_history)
               n == Min2(RecentRuns, total)
               run(i) == metrics_objects[metrics_history[total - n + i]]
               newest == metrics_objects[metrics_history[total]]
               Mean(avg, unit, sum) ==
                  /\ 2 * (avg * n - unit * sum) <= n
                  /\ 2 * (unit * sum - avg * n) <= n
           IN  /\ returned.total_runs = total
               /\ returned.recent_runs = n
               /\ Mean(returned.average_solve_time_seconds100, 100,
                       SumSeq([i \in 1..n |-> run(i).solve_time_seconds]))
               /\ Mean(returned.average_objective_value100, 100,
                       SumSeq([i \in 1..n |-> run(i).objective_value]))
               /\ Mean(returned.average_conflicts_resolved10, 10,
                       SumSeq([i \in 1..n |-> run(i).conflicts_resolved]))
               /\ Mean(returned.success_rate_percent10, 1000,
                       Cardinality({i \in 1..n : run(i).solver_status
                                        \in {"OPTIMAL", "FEASIBLE"}}))
               /\ returned.last_run.status = newest.solver_status
               /\ returned.last_run.objective = newest.objective_value
               /\ returned.last_run.solve_time = newest.solve_time_seconds
               /\ returned.last_run.trains = newest.num_trains
               /\ returned.last_run.conflicts_resolved
                     = newest.conflicts_resolved

\* C16 witness: a summary of a history longer than ten records whose older
\* records differ from the last ten: the last ten all failed, an older one
\* succeeded.
C16_Witness ==
    /\ returned # NoReturn
    /\ Len(metrics_history) > RecentRuns
    /\ returned.success_rate_percent10 = 0
    /\ metrics_objects[metrics_history[1]].solver_status = "OPTIMAL"

\* C17 (exclusive arena ownership): when optimize calls on one optimizer
\* overlap, a call that has returned a result extracted its schedule and
\* metrics from the arena of its own model and over its own horizon: the
\* other call has overwritten neither self.variables nor self.config.
C17_ExclusiveArena ==
    (pc = "done" /\ outcome = "result") =>
       /\ variables = Arena("this", time_horizon)
       /\ config_H = time_horizon

\* C18 (non-negative objective): for every request the service accepts the
\* weights that multiply s[t], j[t] and c[q] are non-negative, so every
\* returned result has an objective value >= 0.
C18_NonNegativeObjective ==
    outcome = "result" =>
      /\ \A i \in 1..Len(trains) :
            DelayWeight * (PriorityBase - trains[i].priority)
                * PriorityMultiplier >= 0
      /\ \A q \in 1..Len(conflicts) :
            ConflictWeight * (PriorityBase - conflicts[q].severity) >= 0
      /\ result.objective_value100 >= 0

C20_TimeGrid ==
    LET ticks == time_horizon \div time_step
    IN  /\ pc # "idle" => Cardinality(time_slots) = ticks
        /\ sol # NoSol =>
              \A tid \in TrainIds : \A sid \in SegmentIds :
                 sol.x[tid][sid] \subseteq 0..(ticks - 1)
        /\ outcome = "result" =>
              \A n \in 1..Len(result.schedule) :
                 LET e == result.schedule[n]
                     row == sol.x[e.train_id][e.segment_id]
                 IN  \E r \in MaximalRuns(row) :
                        /\ e.start_time = base + r[1] * time_step
                        /\ e.end_time = base + r[2] * time_step

\* C21 (maintenance window): the maintenance builder does not fail, whatever
\* the horizon, and in every satisfying assignment of the augmented model no
\* train occupies the window's segment at a grid tick tau with
\* tau_a <= tau <= tau_b.
C21_MaintenanceWindow ==
    augmentation.kind = "maintenance" =>
      /\ augmentation.raised = ""
      /\ sol # NoSol =>
           \A tid \in TrainIds : \A tau \in time_slots :
             (augmentation.window.start_minute <= tau
                /\ tau <= augmentation.window.end_minute)
               => tau \notin sol.x[tid][augmentation.window.track_id]

\* The least integer not below n / d, for d > 0.
CeilDiv(n, d) == -((-n) \div d)

\* C22 (speed restriction ticks): for a restriction v' < v_max on a track of
\* length d the builder computes a = ceil((d/v' - d/v_max) * 60 / Delta)
\* added ticks, rounding every non-integer value up.
C22_SpeedRestrictionTicks ==
    (augmentation.kind = "speed" /\ augmentation.found) =>
      LET track == tracks[find_track(augmentation.track_id)]
          v == augmentation.restricted_speed
      IN  /\ augmentation.raised # "AttributeError"
          /\ has_geometry(track) =>
               augmentation.additional_time =
                 CeilDiv(60 * track.distance_km * (track.max_speed_kmh - v),
                         v * track.max_speed_kmh * time_step)

\* C23 (scenario 4, priority overtaking): once the overtaking builder is
\* applied for a station, in every satisfying assignment two trains of
\* different priority that both occupy an incident segment K do so in
\* priority order: the lower-priority train enters K at least one headway
\* after the higher-priority train entered it.
C23_PriorityOvertaking ==
    (augmentation.kind = "overtaking" /\ augmentation.raised = ""
       /\ sol # NoSol) =>
      \A k \in station_tracks(augmentation.station) :
        \A i \in 1..Len(trains) : \A n \in 1..Len(trains) :
          LET high == sol.x[trains[i].train_id][tracks[k].segment_id]
              low == sol.x[trains[n].train_id][tracks[k].segment_id]
          IN  (trains[i].priority < trains[n].priority
                 /\ high # {} /\ low # {})
                => Min(low) >= Min(high) + Window

\* C24 (monitor wraps the driver): every optimize call records its run in
\* the performance monitor: the run is started before the solve and ended
\* after it, so a finished call, returned or failed, has left one record.
C24_MonitorWrapsDriver ==
    /\ pc = "solved" => RunOpen
    /\ pc = "done" =>
          /\ Len(metrics_objects) = 1
          /\ metrics_history = <<1>>
          /\ metrics_objects[1].ended

\* Segment ids are strings, ordered as Python orders strings.  The ids of
\* the inputs in ascending order: "X-Y" < "X-Y-001" < "X-Y-002" < "Y-Z-001"
\* < "Z-W-001".
SegmentIdOrder == <<NameXY, SegXY, SegXY2, SegYZ, SegZW>>

SegmentIdRank(sid) ==
    CHOOSE n \in 1..Len(SegmentIdOrder) : SegmentIdOrder[n] = sid

\* Track k joins the stations a and b, in either direction.
Joins(k, a, b) ==
    \/ tracks[k].from_station = a /\ tracks[k].to_station = b
    \/ tracks[k].from_station = b /\ tracks[k].to_station = a

\* The positions n of a route whose pair (route[n], route[n + 1]) some track
\* joins, and the place of position n among them.
ConnectedPairs(train) ==
    {n \in 1..(Len(train.route) - 1) :
        \E k \in 1..Len(tracks) : Joins(k, train.route[n], train.route[n + 1])}

PlaceOf(train, n) == Cardinality({m \in ConnectedPairs(train) : m <= n})

\* C25 (route tie-break): when several tracks join the two stations of a
\* route pair, the derived chain holds the one with the smallest segment
\* id, whatever the order of the track list.
C25_RouteTieBreak ==
    pc # "idle" =>
      \A i \in 1..Len(trains) :
        LET train == trains[i]
            chain == get_route_segments(train)
        IN  \A n \in ConnectedPairs(train) :
              \A k \in 1..Len(tracks) :
                Joins(k, train.route[n], train.route[n + 1]) =>
                  SegmentIdRank(chain[PlaceOf(train, n)])
                     <= SegmentIdRank(tracks[k].segment_id)

\* The tracks with the given segment id.
TracksWithId(sid) == {k \in 1..Len(tracks) : tracks[k].segment_id = sid}

\* C26 (route segment extraction): the derived chain holds, in route order,
\* exactly one segment id per consecutive station pair that some track
\* joins, the id of a track that joins the pair in either direction; when
\* every pair is joined the chain has len(route) - 1 segments and
\* consecutive segments share a station.
C26_RouteSegments ==
    pc # "idle" =>
      \A i \in 1..Len(trains) :
        LET train == trains[i]
            chain == get_route_segments(train)
            joined == ConnectedPairs(train)
        IN  /\ Len(chain) = Cardinality(joined)
            /\ \A n \in joined :
                 \E k \in TracksWithId(chain[PlaceOf(train, n)]) :
                    Joins(k, train.route[n], train.route[n + 1])
            /\ joined = 1..(Len(train.route) - 1) =>
                 /\ Len(chain) = Len(train.route) - 1
                 /\ \A m \in 1..(Len(chain) - 1) :
                      \E k \in TracksWithId(chain[m]) :
                      \E l \in TracksWithId(chain[m + 1]) :
                        {tracks[k].from_station, tracks[k].to_station}
                          \cap {tracks[l].from_station, tracks[l].to_station}
                             # {}

\* C26 witness: a model was built for a route whose first pair only a track
\* entered in the opposite direction joins and whose second pair no track
\* joins: the chain is that one segment.
C26_Witness ==
    /\ pc # "idle"
    /\ trains[1].route = <<"Z", "Y", "X">>
    /\ tracks = <<TrackData(SegYZ, "Y", "Z", 1)>>
    /\ get_route_segments(trains[1]) = <<SegYZ>>

\* The track-occupation conflicts over a track of the request that involve
\* at least two trains of the request.
BoundConflicts ==
    {q \in 1..Len(conflicts) :
        /\ conflicts[q].conflict_type = TRACK_OCCUPATION
        /\ conflicts[q].resource_id \in SegmentIds
        /\ Cardinality({conflicts[q].train_ids[n] :
                           n \in 1..Len(conflicts[q].train_ids)}
                       \cap TrainIds) >= 2}

\* C27 (bound conflicts are resolved): no satisfying assignment has
\* c[q] = 1 for a track-occupation conflict q over a track of the request
\* with at least two involved trains of the request, and every returned
\* result counts at least those conflicts as resolved.
C27_BoundConflictsResolved ==
    /\ sol # NoSol =>
         \A q \in BoundConflicts : ~sol.c[conflicts[q].conflict_id]
    /\ outcome = "result" =>
         result.conflicts_resolved >= Cardinality(BoundConflicts)

\* C28 (one record per start): the history never holds more records than
\* start_optimization was called, and no record object is in it twice,
\* whatever the order of the start and end calls.
C28_OneRecordPerStart ==
    /\ Len(metrics_history) <= Len(metrics_objects)
    /\ \A i \in 1..Len(metrics_history) : \A n \in 1..Len(metrics_history) :
          i # n => metrics_history[i] # metrics_history[n]

\* C29 (calls before the first start): as long as start_optimization was
\* not called, end_optimization and set_model_complexity leave the history
\* empty and current_metrics unset, and get_performance_summary reports
\* that no runs are recorded.
C29_NothingBeforeStart ==
    metrics_objects = <<>> =>
      /\ metrics_history = <<>>
      /\ current_metrics = NoMetrics
      /\ returned \in {NoReturn, [message |-> "No optimization runs recorded"]}

\* C29 witness: end_optimization and set_model_complexity were both called
\* on the fresh monitor, and the summary asked after them reported no runs.
C29_Witness ==
    /\ metrics_objects = <<>>
    /\ {"end_optimization", "set_model_complexity"} \subseteq early_calls
    /\ returned = [message |-> "No optimization runs recorded"]

\* The route of the train with the given id.
RouteOf(tid) ==
    trains[CHOOSE i \in 1..Len(trains) : trains[i].train_id = tid].route

\* C30 (entry platform): every entry of a returned schedule carries a
\* platform number in 1..10, the value of p[train, route[0]] for the first
\* station of its train's route, so that all entries of one train carry the
\* same platform whichever segment they are on.
C30_EntryPlatform ==
    outcome = "result" =>
      /\ \A n \in 1..Len(result.schedule) :
           LET e == result.schedule[n]
           IN  /\ e.platform \in 1..MaxPlatform
               /\ RouteOf(e.train_id) # <<>>
               /\ e.platform = sol.p[<<e.train_id, RouteOf(e.train_id)[1]>>]
      /\ \A n \in 1..Len(result.schedule) : \A m \in 1..Len(result.schedule) :
           result.schedule[n].train_id = result.schedule[m].train_id
             => result.schedule[n].platform = result.schedule[m].platform

====
